---------------------------- MODULE Spec2Model ----------------------------
(***************************************************************************)
(* Model of scripts/analyze_batch3.py: the per-record classifier           *)
(* analyze_marketplace (text aggregation, detect_integration, detect_tags, *)
(* generate_descriptions) and the batch driver main that applies it to     *)
(* every record of the input document in order.                            *)
(*                                                                         *)
(* Python strings are TLA+ strings; Len, SubSeq and \o act on them as on   *)
(* sequences of characters.  TLA+ string literals are ASCII, so the three  *)
(* CJK sentence terminators of the source are written as three characters  *)
(* that occur nowhere else in the model: "~" stands for U+3002, "^" for    *)
(* U+FF01 and "|" for U+FF1F.  Each is one character, as in Python.        *)
(*                                                                         *)
(* A JSON field is a record [kind, val]: kind "missing" (no such key),     *)
(* "null" (the key holds null) or "val" (val is the string or the list).   *)
(* A Python value is the same record without "missing": None is kind       *)
(* "null".  val is "" (string fields) or <<>> (list fields) when unused.   *)
(***************************************************************************)
EXTENDS Integers, Sequences, FiniteSets, TLC

VARIABLES
  data,              \* main: the loaded input document, a sequence of records
  i,                 \* main: number of loop iterations completed
  results,           \* main: the results list
  pc,                \* main: "loop", "save", "summary", "done" or "raised"
  raised,            \* the exception that ended main, "" if none
  saved,             \* the document written by json.dump, <<>> before
  with_func,         \* summary count of results with a truthy function
  with_integration   \* summary count of results with a truthy integration

vars == <<data, i, results, pc, raised, saved, with_func, with_integration>>

---------------------------------------------------------------------------
(* Python values and dictionary access *)

\* Python's None, for a string-valued expression
None == [kind |-> "null", val |-> ""]

\* a Python str object
Str(s) == [kind |-> "val", val |-> s]

\* d.get(key, default) on a JSON field f
Get(f, default) == IF f.kind = "missing" THEN [kind |-> "val", val |-> default] ELSE f

\* d.get(key): None when the key is missing
GetOrNone(f) == IF f.kind = "missing" THEN [kind |-> "null", val |-> f.val] ELSE f

\* Python truthiness of a str or list value: None, '' and [] are falsy
Truthy(v) == v.kind = "val" /\ Len(v.val) > 0

---------------------------------------------------------------------------
(* str operations *)

CJK_STOP == "~"
CJK_BANG == "^"
CJK_QUERY == "|"

UpperCase == "ABCDEFGHIJKLMNOPQRSTUVWXYZ"
LowerCase == "abcdefghijklmnopqrstuvwxyz"
Digits == "0123456789"

\* the characters of the model in code-point order (printable ASCII), then the
\* three CJK terminators (U+3002 < U+FF01 < U+FF1F)
Alphabet ==
  " !\"#$%&'()*+,-./" \o Digits \o ":;<=>?@" \o UpperCase \o "[\\]_" \o LowerCase
    \o "{}" \o CJK_STOP \o CJK_BANG \o CJK_QUERY

CharAt(s, k) == SubSeq(s, k, k)

CharsOf(s) == {CharAt(s, k) : k \in 1..Len(s)}

\* rank of a character in code-point order
Ord == [c \in CharsOf(Alphabet) |-> CHOOSE k \in 1..Len(Alphabet) : CharAt(Alphabet, k) = c]

\* str.lower() on one character
LowerChar ==
  [c \in CharsOf(Alphabet) |->
     IF c \in CharsOf(UpperCase)
       THEN CharAt(LowerCase, CHOOSE k \in 1..26 : CharAt(UpperCase, k) = c)
       ELSE c]

\* str.lower() (the string is halved so that the depth of the evaluation
\* stays logarithmic)
RECURSIVE Lower(_)
Lower(s) ==
  IF Len(s) = 0 THEN ""
  ELSE IF Len(s) = 1 THEN LowerChar[s]
  ELSE LET mid == Len(s) \div 2
       IN  Lower(SubSeq(s, 1, mid)) \o Lower(SubSeq(s, mid + 1, Len(s)))

\* sub in s
Contains(s, sub) == \E k \in 1..(Len(s) - Len(sub) + 1) : SubSeq(s, k, k + Len(sub) - 1) = sub

\* s.startswith(prefix)
StartsWith(s, prefix) == Len(prefix) <= Len(s) /\ SubSeq(s, 1, Len(prefix)) = prefix

\* sep.join(strs)
RECURSIVE Join(_, _)
Join(sep, strs) ==
  IF Len(strs) = 0 THEN ""
  ELSE IF Len(strs) = 1 THEN strs[1]
  ELSE strs[1] \o sep \o Join(sep, Tail(strs))

\* str.strip(): the model's only whitespace character is the space
Strip(s) ==
  LET inked == {k \in 1..Len(s) : CharAt(s, k) # " "}
  IN  IF inked = {} THEN ""
      ELSE SubSeq(s, CHOOSE k \in inked : \A j \in inked : k <= j,
                     CHOOSE k \in inked : \A j \in inked : k >= j)

\* a < b for str: lexicographic by code point
RECURSIVE StrLess(_, _)
StrLess(a, b) ==
  IF b = "" THEN FALSE
  ELSE IF a = "" THEN TRUE
  ELSE IF CharAt(a, 1) = CharAt(b, 1) THEN StrLess(SubSeq(a, 2, Len(a)), SubSeq(b, 2, Len(b)))
  ELSE Ord[CharAt(a, 1)] < Ord[CharAt(b, 1)]

\* sorted(list(tags)) for a set of str
RECURSIVE Sorted(_)
Sorted(S) ==
  IF S = {} THEN <<>>
  ELSE LET least == CHOOSE a \in S : \A b \in S \ {a} : StrLess(a, b)
       IN  <<least>> \o Sorted(S \ {least})

---------------------------------------------------------------------------
(* analyze_marketplace: text aggregation *)

\* the truthy 'description' values of a list of skill or command records
RECURSIVE item_descriptions(_)
item_descriptions(items) ==
  IF Len(items) = 0 THEN <<>>
  ELSE (IF Truthy(GetOrNone(items[1].description))
          THEN <<items[1].description.val>> ELSE <<>>)
       \o item_descriptions(Tail(items))

\* the truthy 'name' values of a list of plugin, skill or command records
RECURSIVE item_names(_)
item_names(items) ==
  IF Len(items) = 0 THEN <<>>
  ELSE (IF Truthy(GetOrNone(items[1].name)) THEN <<items[1].name.val>> ELSE <<>>)
       \o item_names(Tail(items))

\* what one pass of the plugin loop appends to all_info
plugin_info(p) ==
  (IF Truthy(GetOrNone(p.description)) THEN <<p.description.val>> ELSE <<>>)
    \o item_descriptions(Get(p.skills, <<>>).val)
    \o item_descriptions(Get(p.commands, <<>>).val)

RECURSIVE plugins_info(_)
plugins_info(plugins) ==
  IF Len(plugins) = 0 THEN <<>>
  ELSE plugin_info(plugins[1]) \o plugins_info(Tail(plugins))

RECURSIVE plugins_skill_names(_)
plugins_skill_names(plugins) ==
  IF Len(plugins) = 0 THEN <<>>
  ELSE item_names(Get(plugins[1].skills, <<>>).val) \o plugins_skill_names(Tail(plugins))

RECURSIVE plugins_command_names(_)
plugins_command_names(plugins) ==
  IF Len(plugins) = 0 THEN <<>>
  ELSE item_names(Get(plugins[1].commands, <<>>).val)
       \o plugins_command_names(Tail(plugins))

all_info(m) ==
  (IF Truthy(Get(m.description, "")) THEN <<m.description.val>> ELSE <<>>)
    \o plugins_info(Get(m.plugins, <<>>).val)

plugin_names(m) == item_names(Get(m.plugins, <<>>).val)

skill_names(m) == plugins_skill_names(Get(m.plugins, <<>>).val)

command_names(m) == plugins_command_names(Get(m.plugins, <<>>).val)

combined_text(m) == Lower(Join(" ", all_info(m)))

\* faulty variant of all_names: the names are collected plugin by plugin, in
\* the order all_info collects the descriptions
all_names_in_traversal(m) ==
  LET RECURSIVE walk(_)
      walk(plugins) ==
        IF Len(plugins) = 0 THEN <<>>
        ELSE item_names(<<plugins[1]>>)
               \o item_names(Get(plugins[1].skills, <<>>).val)
               \o item_names(Get(plugins[1].commands, <<>>).val)
               \o walk(Tail(plugins))
  IN  Lower(Join(" ", walk(Get(m.plugins, <<>>).val)))

\* line 40
all_names(m) == Lower(Join(" ", plugin_names(m) \o skill_names(m) \o command_names(m)))

\* the loops of lines 23-37 iterate a None: 'plugins', or a plugin's 'skills'
\* or 'commands', holds null
aggregation_raises(m) ==
  LET plugins == Get(m.plugins, <<>>)
  IN  \/ plugins.kind = "null"
      \/ \E k \in 1..Len(plugins.val) :
            \/ Get(plugins.val[k].skills, <<>>).kind = "null"
            \/ Get(plugins.val[k].commands, <<>>).kind = "null"

---------------------------------------------------------------------------
(* detect_integration *)

integrations ==
  <<
     <<"holoviz", "HoloViz">>,
     <<"treasure data", "Treasure Data">>,
     <<"home assistant", "Home Assistant">>,
     <<"esphome", "ESPHome">>,
     <<"graphpad prism", "GraphPad Prism">>,
     <<"redpanda connect", "Redpanda Connect">>,
     <<"shesha", "Shesha Framework">>,
     <<"microsoft 365", "Microsoft 365">>,
     <<"m365", "Microsoft 365">>,
     <<"google workspace", "Google Workspace">>,
     <<"twenty crm", "Twenty CRM">>,
     <<"makerkit", "MakerKit">>,
     <<"dojo", "Dojo/Starknet">>,
     <<"starknet", "Dojo/Starknet">>,
     <<"shioaji", "Shioaji">>,
     <<"frappe", "Frappe/ERPNext">>,
     <<"erpnext", "Frappe/ERPNext">>,
     <<"maui blazor", ".NET MAUI Blazor">>,
     <<"nette", "Nette Framework">>,
     <<"composable architecture", "Swift/TCA">>,
     <<"tca", "Swift/TCA">>,
     <<"webviewbridge", "Swift/WebKit">>,
     <<"langroid", "Langroid">>,
     <<"langchain", "LangChain">>,
     <<"dspy", "DSPy">>,
     <<"insforge", "InsForge">>,
     <<"cloudflare worker", "Cloudflare Workers">>,
     <<"railway", "Railway">>,
     <<"vercel", "Vercel">>,
     <<"hetzner", "Hetzner">>,
     <<"kubernetes", "Kubernetes">>,
     <<"k8s", "Kubernetes">>,
     <<"terraform", "Terraform">>,
     <<"docker", "Docker">>,
     <<"github action", "GitHub Actions">>,
     <<"buildkite", "Buildkite">>,
     <<"gitlab", "GitLab">>,
     <<"azure devops", "Azure DevOps">>,
     <<"aws", "AWS">>,
     <<"azure", "Azure">>,
     <<"gcp", "GCP">>,
     <<"google cloud", "GCP">>,
     <<"supabase", "Supabase">>,
     <<"firebase", "Firebase">>,
     <<"postgresql", "PostgreSQL">>,
     <<"postgres", "PostgreSQL">>,
     <<"mysql", "MySQL">>,
     <<"mongodb", "MongoDB">>,
     <<"redis", "Redis">>,
     <<"neo4j", "Neo4j">>,
     <<"duckdb", "DuckDB">>,
     <<"drizzle", "Drizzle ORM">>,
     <<"prisma", "Prisma">>,
     <<"sqlalchemy", "SQLAlchemy">>,
     <<"sql server", "SQL Server">>,
     <<"tsqlt", "SQL Server">>,
     <<"cool-mysql", "MySQL">>,
     <<"next.js", "Next.js">>,
     <<"nextjs", "Next.js">>,
     <<"nuxt", "Nuxt">>,
     <<"svelte", "Svelte">>,
     <<"angular", "Angular">>,
     <<"vue", "Vue">>,
     <<"react native", "React Native">>,
     <<"expo", "Expo">>,
     <<"flutter", "Flutter">>,
     <<"tanstack", "TanStack">>,
     <<"taro", "Taro">>,
     <<"django", "Django">>,
     <<"fastapi", "FastAPI">>,
     <<"spring boot", "Spring Boot">>,
     <<"springboot", "Spring Boot">>,
     <<"laravel", "Laravel">>,
     <<"laravel forge", "Laravel Forge">>,
     <<"ruby on rails", "Ruby on Rails">>,
     <<"rails", "Ruby on Rails">>,
     <<"go gin", "Go Gin">>,
     <<"gin framework", "Go Gin">>,
     <<"go echo", "Go Echo">>,
     <<"echo framework", "Go Echo">>,
     <<"hono", "Hono">>,
     <<"axum", "Rust Axum">>,
     <<"asp.net", "ASP.NET">>,
     <<"elixir", "Elixir">>,
     <<"phoenix", "Elixir/Phoenix">>,
     <<"haskell", "Haskell">>,
     <<"hoogle", "Haskell">>,
     <<"julia", "Julia">>,
     <<"elm", "Elm">>,
     <<"dart", "Dart">>,
     <<"rust", "Rust">>,
     <<"golang", "Go">>,
     <<"godot", "Godot">>,
     <<"unity", "Unity">>,
     <<"unreal", "Unreal">>,
     <<"ida pro", "IDA Pro">>,
     <<"idapython", "IDA Pro">>,
     <<"obsidian", "Obsidian">>,
     <<"notion", "Notion">>,
     <<"slack", "Slack">>,
     <<"jira", "Jira">>,
     <<"linear", "Linear">>,
     <<"playwright", "Playwright">>,
     <<"xcode", "Xcode">>,
     <<"iterm", "iTerm2">>,
     <<"tmux", "tmux">>,
     <<"zellij", "Zellij">>,
     <<"whisper", "Whisper">>,
     <<"browserbase", "Browserbase">>,
     <<"stripe", "Stripe">>,
     <<"plaid", "Plaid">>,
     <<"auth0", "Auth0">>,
     <<"posthog", "PostHog">>,
     <<"sentry", "Sentry">>,
     <<"bugsnag", "Bugsnag">>,
     <<"prometheus", "Prometheus">>,
     <<"tavily", "Tavily">>,
     <<"brevo", "Brevo">>,
     <<"salesforce", "Salesforce">>,
     <<"graphql", "GraphQL">>,
     <<"openapi", "OpenAPI">>,
     <<"openai", "OpenAI">>,
     <<"gemini", "Google Gemini">>,
     <<"anthropic", "Anthropic">>,
     <<"ollama", "Ollama">>,
     <<"mlx", "MLX">>,
     <<"pytorch", "PyTorch">>,
     <<"transformers", "Transformers">>,
     <<"modal", "Modal">>,
     <<"olakai", "Olakai">>,
     <<"aptos", "Aptos">>,
     <<"walrus", "Walrus">>,
     <<"shelby", "Shelby/Aptos">>,
     <<"web3", "Web3">>,
     <<"blockchain", "Blockchain">>,
     <<"wechat", "WeChat">>,
     <<"ia writer", "iA Writer">>,
     <<"polars", "Polars">>,
     <<"oxlint", "Oxlint">>,
     <<"marksman", "Marksman">>
  >>

\* faulty variant of integration_hit: the repo is not consulted
integration_hit_text_only(k, combined, repo_lower) ==
  Contains(combined, integrations[k][1])

\* the test of line 242 for table entry k
integration_hit(k, combined, repo_lower) ==
  Contains(combined, integrations[k][1]) \/ Contains(repo_lower, integrations[k][1])

\* faulty variant of integration_loop: the last entry that matches wins
integration_loop_last(lo, hi, combined, repo_lower) ==
  LET hits == {j \in lo..hi : integration_hit(j, combined, repo_lower)}
  IN  IF hits = {} THEN 0 ELSE CHOOSE j \in hits : \A o \in hits : o <= j

\* the loop of lines 241-243 over entries lo..hi: the first entry that
\* matches, 0 when the loop ends without a return (the range is halved so
\* that the depth of the evaluation stays logarithmic)
RECURSIVE integration_loop(_, _, _, _)
integration_loop(lo, hi, combined, repo_lower) ==
  IF lo = hi
    THEN IF integration_hit(lo, combined, repo_lower) THEN lo ELSE 0
    ELSE LET mid == (lo + hi) \div 2
             first == integration_loop(lo, mid, combined, repo_lower)
         IN  IF first > 0 THEN first
             ELSE integration_loop(mid + 1, hi, combined, repo_lower)

\* faulty variant of integration_fallback: the TypeScript rule is tried before
\* the Python rule
integration_fallback_typescript_first(combined) ==
  IF Contains(combined, "react") /\ ~Contains(combined, "native")
       /\ ~Contains(combined, "reactive")
    THEN Str("React")
  ELSE IF Contains(combined, "typescript") THEN Str("TypeScript")
  ELSE IF Contains(combined, "python")
            /\ ~(\E x \in {"django", "fastapi", "flask"} : Contains(combined, x))
    THEN Str("Python")
  ELSE IF Contains(combined, ".net") \/ Contains(combined, "dotnet") THEN Str(".NET")
  ELSE IF Contains(combined, " go ") \/ StartsWith(combined, "go ")
            \/ Contains(combined, "golang")
    THEN Str("Go")
  ELSE IF Contains(combined, "swift") /\ ~Contains(combined, "swiftui") THEN Str("Swift")
  ELSE None

\* lines 245-269: the rules after the table
integration_fallback(combined) ==
  IF Contains(combined, "react") /\ ~Contains(combined, "native")
       /\ ~Contains(combined, "reactive")
    THEN Str("React")
  ELSE IF Contains(combined, "python")
            /\ ~(\E x \in {"django", "fastapi", "flask"} : Contains(combined, x))
    THEN Str("Python")
  ELSE IF Contains(combined, "typescript") THEN Str("TypeScript")
  ELSE IF Contains(combined, ".net") \/ Contains(combined, "dotnet") THEN Str(".NET")
  ELSE IF Contains(combined, " go ") \/ StartsWith(combined, "go ")
            \/ Contains(combined, "golang")
    THEN Str("Go")
  ELSE IF Contains(combined, "swift") /\ ~Contains(combined, "swiftui") THEN Str("Swift")
  ELSE None

\* repo is the str held by the record's 'repo'
detect_integration(combined, names, repo) ==
  LET k == integration_loop(1, Len(integrations), combined, Lower(repo))
  IN  IF k > 0 THEN Str(integrations[k][2]) ELSE integration_fallback(combined)

\* line 242, repo.lower() on None: evaluated in the first pass of the loop
\* unless the first keyword is in combined
integration_raises(combined, repo_value) ==
  repo_value.kind = "null" /\ ~Contains(combined, integrations[1][1])

---------------------------------------------------------------------------
(* detect_tags *)

tag_patterns ==
  <<
     << <<"plan", "planning", "spec", "specification", "requirement", "prd", "roadmap">>,
        "planning" >>,
     << <<"design", "architect", "uml", "diagram", "blueprint", "wireframe">>,
        "design" >>,
     << <<"implement", "develop", "code", "build", "scaffold", "generate">>,
        "implementation" >>,
     << <<"test", "tdd", "bdd", "unit test", "e2e", "playwright", "jest", "pytest">>,
        "testing" >>,
     << <<"deploy", "ci/cd", "release", "ship", "publish", "pipeline">>,
        "deployment" >>,
     << <<"monitor", "observ", "metric", "telemetry", "trace", "log">>,
        "monitoring" >>,
     << <<"debug", "troubleshoot", "diagnos", "fix", "error">>,
        "debugging" >>,
     << <<"document", "doc", "readme", "changelog", "wiki">>,
        "documentation" >>,
     << <<"review", "pr review", "code review", "audit">>,
        "code-review" >>,
     << <<"context", "memory", "session", "persist", "state">>,
        "context-management" >>,
     << <<"orchestrat", "multi-agent", "workflow", "pipeline", "coordinate">>,
        "orchestration" >>,
     << <<"frontend", "ui", "component", "css", "style", "tailwind">>,
        "frontend" >>,
     << <<"backend", "api", "server", "endpoint", "rest", "graphql">>,
        "backend" >>,
     << <<"database", "sql", "migration", "schema", "orm", "query">>,
        "database" >>,
     << <<"devops", "infrastructure", "cloud", "container", "k8s">>,
        "devops" >>,
     << <<"security", "auth", "oauth", "vulnerability", "encrypt", "permission">>,
        "security" >>,
     << <<"git", "commit", "branch", "merge", "rebase", "pr", "pull request">>,
        "version-control" >>,
     << <<"refactor", "clean", "simplif", "reorganize">>,
        "refactoring" >>,
     << <<"research", "analys", "investigat", "explor">>,
        "research" >>,
     << <<"visual", "dashboard", "chart", "graph", "plot">>,
        "data-visualization" >>,
     << <<"data process", "transform", "etl", "pipeline", "ingest">>,
        "data-processing" >>,
     << <<"mobile", "ios", "android", "app store">>,
        "mobile" >>,
     << <<"game", "unity", "godot", "unreal">>,
        "game-development" >>,
     << <<"llm", "machine learning", "ml", "ai agent", "prompt">>,
        "ai-ml" >>,
     << <<"prompt engineer", "prompt optim">>,
        "prompt-engineering" >>,
     << <<"plugin develop", "skill creat", "marketplace">>,
        "plugin-development" >>,
     << <<"incident", "root cause", "postmortem", "sre">>,
        "incident-response" >>,
     << <<"notification", "alert", "webhook", "sound">>,
        "notifications" >>,
     << <<"project manage", "task", "issue", "ticket", "backlog", "sprint">>,
        "project-management" >>,
     << <<"content", "write", "blog", "article", "copy">>,
        "content-creation" >>,
     << <<"translate", "i18n", "localization", "language">>,
        "localization" >>,
     << <<"accessibility", "a11y", "wcag">>,
        "accessibility" >>,
     << <<"performance", "optim", "speed", "cache">>,
        "performance" >>,
     << <<"reverse engineer", "binary", "decompile", "disassembl">>,
        "reverse-engineering" >>,
     << <<"crypto", "trading", "defi", "finance", "payment">>,
        "fintech" >>,
     << <<"crm", "customer", "lead", "sales">>,
        "crm" >>,
     << <<"marketing", "seo", "campaign", "analytics">>,
        "marketing" >>,
     << <<"lsp", "language server">>,
        "language-server" >>,
     << <<"format", "lint", "prettier", "eslint", "style">>,
        "code-quality" >>,
     << <<"type check", "type signature", "rbs", "sorbet">>,
        "type-checking" >>,
     << <<"ddd", "domain.driven", "bounded context">>,
        "domain-driven-design" >>,
     << <<"tdd", "test.driven">>,
        "test-driven-development" >>
  >>

\* \w
WordChars == CharsOf(UpperCase \o LowerCase \o Digits \o "_")

IsWordAt(s, k) == k >= 1 /\ k <= Len(s) /\ CharAt(s, k) \in WordChars

\* \b just before position k of s (k = Len(s) + 1: at the end)
WordBoundary(s, k) == IsWordAt(s, k - 1) # IsWordAt(s, k)

\* one alternative of a pattern matched at position k; "." matches any
\* character (the model has no newline)
AltMatchesAt(alt, s, k) ==
  /\ k + Len(alt) - 1 <= Len(s)
  /\ \A j \in 1..Len(alt) :
        CharAt(alt, j) = "." \/ CharAt(alt, j) = CharAt(s, k + j - 1)

\* re.search(r'\b(alt1|alt2|...)\b', s)
re_search(alts, s) ==
  \E k \in 1..Len(s) :
     /\ WordBoundary(s, k)
     /\ \E a \in 1..Len(alts) :
           AltMatchesAt(alts[a], s, k) /\ WordBoundary(s, k + Len(alts[a]))

\* faulty variant of detect_tags: first match wins, the loop stops at the
\* first pattern that matches
detect_tags_first(combined, names) ==
  LET matching == {q \in 1..Len(tag_patterns) : re_search(tag_patterns[q][1], combined)}
  IN  {tag_patterns[p][2] : p \in {q \in matching : \A o \in matching : q <= o}}

detect_tags(combined, names) ==
  {tag_patterns[p][2] : p \in {q \in 1..Len(tag_patterns) : re_search(tag_patterns[q][1], combined)}}

---------------------------------------------------------------------------
(* generate_descriptions *)

\* lines 340-344: the first truthy plugin description, None if there is none
RECURSIVE first_plugin_desc(_)
first_plugin_desc(plugins) ==
  IF Len(plugins) = 0 THEN None
  ELSE IF Truthy(GetOrNone(plugins[1].description)) THEN plugins[1].description
  ELSE first_plugin_desc(Tail(plugins))

\* line 347: the guard of the branch for records without text
no_text(m) ==
  ~Truthy(Get(m.description, "")) /\ ~Truthy(first_plugin_desc(Get(m.plugins, <<>>).val))

\* line 349: [p.get('name', '') for p in plugins], as Python values
name_values(plugins) == [k \in 1..Len(plugins) |-> Get(plugins[k].name, "")]

\* line 355: ' '.join(plugin_names) raises TypeError on a None item
names_join_raises(m) ==
  LET names == name_values(Get(m.plugins, <<>>).val)
  IN  no_text(m) /\ \E k \in 1..Len(names) : names[k].kind = "null"

\* lines 349-364
describe_from_names(m) ==
  LET names == name_values(Get(m.plugins, <<>>).val)
      names_combined == Lower(Join(" ", [k \in 1..Len(names) |-> names[k].val]))
  IN  IF Len(names) = 0 THEN <<None, None>>
      ELSE IF Contains(names_combined, "git") \/ Contains(names_combined, "commit")
        THEN <<Str("Automate git workflows including commits, branches, and pull requests."),
               Str("Streamline version control with consistent, well-formatted commits.")>>
      ELSE IF Contains(names_combined, "review")
        THEN <<Str("Review code changes and provide feedback."),
               Str("Catch issues early with automated code review.")>>
      ELSE IF Contains(names_combined, "test")
        THEN <<Str("Generate and run tests for code."),
               Str("Ensure code quality with comprehensive test coverage.")>>
      ELSE <<None, None>>

\* lines 373-431: the content rules, in order; the number of the first rule
\* whose condition holds, 0 if none does
content_rule(combined) ==
  IF Contains(combined, "visualization") \/ Contains(combined, "holoviz")
       \/ (Contains(combined, "dashboard") /\ Contains(combined, "data"))
    THEN 1
  ELSE IF Contains(combined, "api")
            /\ (Contains(combined, "document") \/ Contains(combined, "endpoint"))
            /\ ~Contains(combined, "visual")
    THEN 2
  ELSE IF Contains(combined, "dashboard") THEN 3
  ELSE IF Contains(combined, "root cause") \/ Contains(combined, "incident") THEN 4
  ELSE IF Contains(combined, "multi-agent") \/ Contains(combined, "orchestrat") THEN 5
  ELSE IF Contains(combined, "session")
            /\ (Contains(combined, "context") \/ Contains(combined, "memory")
                  \/ Contains(combined, "analytics"))
    THEN 6
  ELSE IF Contains(combined, "spec")
            /\ (Contains(combined, "driven") \/ Contains(combined, "workflow"))
    THEN 7
  ELSE IF Contains(combined, "tdd") \/ Contains(combined, "test-driven") THEN 8
  ELSE IF Contains(combined, "git")
            /\ (Contains(combined, "commit") \/ Contains(combined, "workflow")
                  \/ Contains(combined, "pr"))
    THEN 9
  ELSE IF Contains(combined, "code review") \/ Contains(combined, "pr review") THEN 10
  ELSE IF Contains(combined, "plugin")
            /\ (Contains(combined, "develop") \/ Contains(combined, "create")
                  \/ Contains(combined, "build"))
    THEN 11
  ELSE IF Contains(combined, "document") \/ Contains(combined, "changelog")
            \/ Contains(combined, "readme")
    THEN 12
  ELSE 0

\* the (func, value) assigned by content rule 1..12
content_pairs ==
  << <<"Build interactive data visualizations and dashboards.",
       "Create publication-quality visualizations with less code.">>,
     <<"Document and explore REST API endpoints through testing and analysis.",
       "Understand and document APIs quickly without manual exploration.">>,
     <<"Build interactive data visualizations and dashboards.",
       "Create publication-quality visualizations with less code.">>,
     <<"Investigate production incidents and identify root causes.",
       "Reduce mean time to resolution with systematic debugging.">>,
     <<"Coordinate multiple AI agents to complete complex tasks.",
       "Break down large problems into parallel workstreams.">>,
     <<"Track and manage session state, context, and analytics.",
       "Maintain continuity across conversations and optimize performance.">>,
     <<"Follow specification-driven development with planning, design, and implementation phases.",
       "Build software systematically with clear requirements and traceability.">>,
     <<"Implement features using test-driven development methodology.",
       "Write reliable code with comprehensive test coverage from the start.">>,
     <<"Automate git workflows including commits, branches, and pull requests.",
       "Maintain clean git history with consistent commit conventions.">>,
     <<"Review code changes and provide feedback on quality, security, and best practices.",
       "Catch bugs and improve code quality before merging.">>,
     <<"Create and manage Claude Code plugins, skills, and commands.",
       "Extend Claude Code with custom functionality tailored to your workflow.">>,
     <<"Generate and maintain project documentation including READMEs and changelogs.",
       "Keep documentation up-to-date with minimal manual effort.">>
  >>

\* lines 435-527: the labels with a pair of their own (AWS, Azure and GCP
\* share a formatted one, see integration_pair)
integration_pairs ==
  <<
     << {"Flutter"},
        "Build and review Flutter/Dart applications with best practices.",
        "Develop cross-platform mobile apps faster with expert guidance." >>,
     << {"Django"},
        "Develop Django applications following best practices and patterns.",
        "Build robust Python web applications with proper architecture." >>,
     << {"Next.js"},
        "Build Next.js applications with React, routing, and server components.",
        "Create production-ready React applications with modern patterns." >>,
     << {"Spring Boot"},
        "Develop Spring Boot applications with proper architecture and patterns.",
        "Build enterprise Java applications following best practices." >>,
     << {"Godot"},
        "Develop, test, and deploy Godot game projects.",
        "Accelerate game development with automated testing and deployment." >>,
     << {"IDA Pro"},
        "Analyze binaries and automate reverse engineering tasks in IDA Pro.",
        "Accelerate security research with automated binary analysis." >>,
     << {"Supabase"},
        "Build applications with Supabase for database, auth, and storage.",
        "Develop full-stack apps quickly with managed backend services." >>,
     << {"Jira"},
        "Manage Jira issues, sprints, and workflows.",
        "Streamline project management with automated Jira operations." >>,
     << {"Linear"},
        "Manage Linear issues and development workflows.",
        "Keep development in sync with project management." >>,
     << {"Home Assistant"},
        "Create Home Assistant automations, scripts, and ESPHome configurations.",
        "Build smart home integrations with expert guidance." >>,
     << {"Obsidian"},
        "Manage Obsidian vaults including notes, links, and organization.",
        "Keep your knowledge base organized and interconnected." >>,
     << {"Salesforce"},
        "Develop Salesforce applications including Apex, Flows, and metadata.",
        "Build and maintain Salesforce customizations efficiently." >>,
     << {"Go", "Go Gin", "Go Echo"},
        "Develop Go applications with proper patterns and best practices.",
        "Write idiomatic, performant Go code." >>,
     << {"Rust"},
        "Develop Rust applications with proper patterns and error handling.",
        "Write safe, efficient Rust code." >>,
     << {"Elixir/Phoenix"},
        "Design and build Elixir/Phoenix applications with OTP patterns.",
        "Create scalable, fault-tolerant systems." >>,
     << {"Laravel"},
        "Develop Laravel applications with proper patterns and conventions.",
        "Build PHP applications following Laravel best practices." >>,
     << {"Expo"},
        "Build and deploy Expo/React Native mobile applications.",
        "Ship mobile apps faster with streamlined development workflows." >>,
     << {"Kubernetes"},
        "Deploy and manage Kubernetes applications and configurations.",
        "Simplify container orchestration and deployment." >>,
     << {"Docker"},
        "Build and manage Docker containers and development environments.",
        "Standardize development and deployment with containers." >>,
     << {"Playwright"},
        "Automate browser testing and web scraping with Playwright.",
        "Test web applications reliably across browsers." >>,
     << {"GraphQL"},
        "Design and implement GraphQL APIs and schemas.",
        "Build flexible, efficient APIs with GraphQL." >>,
     << {"Stripe"},
        "Integrate Stripe payments, subscriptions, and webhooks.",
        "Add payment processing to applications quickly." >>,
     << {"PostHog"},
        "Manage PostHog feature flags, analytics, and user tracking.",
        "Make data-driven decisions with product analytics." >>,
     << {"Sentry"},
        "Debug application errors using Sentry error tracking.",
        "Identify and fix bugs faster with error context." >>,
     << {"Notion"},
        "Manage and automate Notion workspaces and knowledge bases.",
        "Keep documentation and knowledge organized." >>,
     << {"Slack"},
        "Search and interact with Slack workspaces and channels.",
        "Find information and automate Slack workflows." >>,
     << {"Google Gemini"},
        "Generate images and content using Google Gemini APIs.",
        "Create AI-generated assets for applications." >>,
     << {"LangChain"},
        "Build AI agents and workflows using LangChain.",
        "Create sophisticated AI applications with modular components." >>,
     << {"Web3"},
        "Develop Web3 and blockchain applications.",
        "Build decentralized applications with proper patterns." >>,
     << {"WeChat"},
        "Create WeChat Mini Programs and official account content.",
        "Reach users on China's dominant messaging platform." >>
  >>

\* faulty variant of integration_pair: every label gets the templated pair
integration_pair_generic(integration) ==
  <<"Develop " \o integration \o " applications with best practices and patterns.",
    "Build quality " \o integration \o " projects faster.">>

\* lines 434-530: the pair for a truthy integration label
integration_pair(integration) ==
  LET rows == {k \in 1..Len(integration_pairs) : integration \in integration_pairs[k][1]}
  IN  IF integration \in {"AWS", "Azure", "GCP"}
        THEN <<"Deploy and manage cloud infrastructure on " \o integration \o ".",
               "Automate cloud operations with infrastructure as code.">>
      ELSE IF rows # {}
        THEN LET k == CHOOSE r \in rows : \A o \in rows : r <= o
             IN  <<integration_pairs[k][2], integration_pairs[k][3]>>
      ELSE <<"Develop " \o integration \o " applications with best practices and patterns.",
             "Build quality " \o integration \o " projects faster.">>

\* lines 532-555: the rules after the integration dispatch, in order; the
\* number of the first whose condition holds, 0 if none does
heuristic_rule(combined) ==
  IF Contains(combined, "autonomous") \/ Contains(combined, "autopilot")
       \/ Contains(combined, "ralph")
    THEN 1
  ELSE IF Contains(combined, "research")
            /\ (Contains(combined, "deep") \/ Contains(combined, "web"))
    THEN 2
  ELSE IF Contains(combined, "notification") \/ Contains(combined, "alert")
            \/ Contains(combined, "sound")
    THEN 3
  ELSE IF Contains(combined, "domain-driven") \/ Contains(combined, "ddd")
            \/ Contains(combined, "bounded context")
    THEN 4
  ELSE IF Contains(combined, "security")
            /\ (Contains(combined, "audit") \/ Contains(combined, "review")
                  \/ Contains(combined, "scan"))
    THEN 5
  ELSE 0

\* the (func, value) assigned by heuristic rule 1..5
heuristic_pairs ==
  << <<"Run autonomous development loops that iterate until task completion.",
       "Let AI handle repetitive development tasks independently.">>,
     <<"Conduct deep research using web search and source analysis.",
       "Get comprehensive, verified answers to complex questions.">>,
     <<"Send notifications when Claude completes tasks or needs input.",
       "Stay informed without watching the terminal.">>,
     <<"Apply Domain-Driven Design principles to software architecture.",
       "Build maintainable systems aligned with business domains.">>,
     <<"Audit code for security vulnerabilities and compliance issues.",
       "Identify security risks before they reach production.">>
  >>

LatinTerminators == {".", "!", "?"}

CJKTerminators == {CJK_STOP, CJK_BANG, CJK_QUERY}

Terminators == LatinTerminators \cup CJKTerminators

\* the least element of a non-empty set of integers
Least(S) == CHOOSE k \in S : \A j \in S : k <= j

\* faulty variant of first_sentence: the split is at the first of the three
\* Latin terminators
first_sentence_any_terminator(source) ==
  LET stops == {k \in 1..Len(source) : CharAt(source, k) \in LatinTerminators}
  IN  Strip(IF stops = {} THEN source ELSE SubSeq(source, 1, Least(stops) - 1))

\* line 564: source.split('.')[0].strip()
first_sentence(source) ==
  LET dots == {k \in 1..Len(source) : CharAt(source, k) = "."}
  IN  Strip(IF dots = {} THEN source ELSE SubSeq(source, 1, Least(dots) - 1))

\* line 567: re.match(r'^(.+?[CJK terminators])', source): the shortest prefix
\* of two or more characters that ends in a CJK terminator; 0 if no match
cjk_match_end(source) ==
  LET ends == {k \in 2..Len(source) : CharAt(source, k) \in CJKTerminators}
  IN  IF ends = {} THEN 0 ELSE Least(ends)

\* line 574: re.match(r'^([^terminators]+[terminators]?)', source): the longest
\* run of non-terminators from the start, one or more, and the terminator
\* after it if there is one; 0 if the source starts with a terminator
sentence_match_end(source) ==
  LET stops == {k \in 1..Len(source) : CharAt(source, k) \in Terminators}
  IN  IF stops = {} THEN Len(source)
      ELSE IF Least(stops) = 1 THEN 0
      ELSE Least(stops)

\* lines 564-578: func before truncation
extract_sentence(source) ==
  IF Len(first_sentence(source)) < 10 /\ Len(source) > 20
    THEN IF cjk_match_end(source) > 0
           THEN Strip(SubSeq(source, 1, cjk_match_end(source)))
           ELSE Strip(source)
    ELSE IF sentence_match_end(source) > 0
           THEN Strip(SubSeq(source, 1, sentence_match_end(source)))
           ELSE Strip(source)

\* faulty variant of truncate: the cut keeps as many characters as the limit
truncate_keep_limit(func) ==
  IF Len(func) > 150 THEN SubSeq(func, 1, 150) \o "..." ELSE func

\* lines 580-581
truncate(func) == IF Len(func) > 150 THEN SubSeq(func, 1, 147) \o "..." ELSE func

\* lines 582-583
punctuate(func) ==
  IF Len(func) > 0 /\ ~(CharAt(func, Len(func)) \in Terminators) THEN func \o "." ELSE func

\* lines 586-595
value_from_context(combined) ==
  IF Contains(combined, "productivity") \/ Contains(combined, "workflow")
    THEN "Improve development productivity with automated workflows."
  ELSE IF Contains(combined, "quality")
    THEN "Maintain high code quality with consistent standards."
  ELSE IF Contains(combined, "speed") \/ Contains(combined, "fast")
    THEN "Complete development tasks faster."
  ELSE IF Contains(combined, "learn") \/ Contains(combined, "teach")
    THEN "Learn and improve development skills."
  ELSE "Streamline development workflows and reduce manual effort."

\* faulty variant of fallback_extraction: a source of nothing but spaces counts
\* as no source
fallback_extraction_blank_is_none(source, combined) ==
  IF Len(Strip(source)) > 0
    THEN <<Str(punctuate(truncate(extract_sentence(source)))),
           Str(value_from_context(combined))>>
    ELSE <<None, None>>

\* lines 558-597
fallback_extraction(source, combined) ==
  IF Len(source) > 0
    THEN <<Str(punctuate(truncate(extract_sentence(source)))),
           Str(value_from_context(combined))>>
    ELSE <<None, None>>

\* faulty variant of cascade_branch: the integration label is not consulted
cascade_branch_no_label(combined, integration) ==
  IF content_rule(combined) > 0 THEN "content"
  ELSE IF heuristic_rule(combined) > 0 THEN "heuristic"
  ELSE "fallback"

\* faulty variant of cascade_branch: the integration label is tried before the
\* content rules
cascade_branch_label_first(combined, integration) ==
  IF Truthy(integration) THEN "integration"
  ELSE IF content_rule(combined) > 0 THEN "content"
  ELSE IF heuristic_rule(combined) > 0 THEN "heuristic"
  ELSE "fallback"

\* the branch of the if/elif chain of lines 374-558 that is taken
cascade_branch(combined, integration) ==
  IF content_rule(combined) > 0 THEN "content"
  ELSE IF Truthy(integration) THEN "integration"
  ELSE IF heuristic_rule(combined) > 0 THEN "heuristic"
  ELSE "fallback"

generate_descriptions(m, combined, integration, tags) ==
  LET desc == Get(m.description, "")
      plugin_desc == first_plugin_desc(Get(m.plugins, <<>>).val)
      source == IF Truthy(desc) THEN desc.val ELSE plugin_desc.val
      branch == cascade_branch(combined, integration)
      canned(pair) == <<Str(pair[1]), Str(pair[2])>>
  IN  IF no_text(m) THEN describe_from_names(m)
      ELSE IF branch = "content" THEN canned(content_pairs[content_rule(combined)])
      ELSE IF branch = "integration" THEN canned(integration_pair(integration.val))
      ELSE IF branch = "heuristic" THEN canned(heuristic_pairs[heuristic_rule(combined)])
      ELSE fallback_extraction(source, combined)

---------------------------------------------------------------------------
(* analyze_marketplace *)

\* the exception analyze_marketplace(m) raises, "" if it returns
analyze_raises(m) ==
  LET repo == Get(m.repo, "")
      combined == combined_text(m)
  IN  IF aggregation_raises(m) THEN "TypeError"
      ELSE IF integration_raises(combined, repo) THEN "AttributeError"
      ELSE IF no_text(m) /\ Len(Get(m.plugins, <<>>).val) > 0 /\ repo.kind = "null"
        THEN "AttributeError"
      ELSE IF names_join_raises(m) THEN "TypeError"
      ELSE ""

\* the result dictionary, for a record on which nothing raises
analyze_marketplace(m, idx) ==
  LET repo == Get(m.repo, "")
      combined == combined_text(m)
      names == all_names(m)
      integration == detect_integration(combined, names, repo.val)
      tags == detect_tags(combined, names)
      described == generate_descriptions(m, combined, integration, tags)
  IN  [repo |-> repo,
       function |-> described[1],
       value |-> described[2],
       stage_lifecycle_arch |-> IF tags # {} THEN Sorted(tags) ELSE <<"general">>,
       integration |-> integration]

---------------------------------------------------------------------------
(* main *)

\* faulty variant of Analyze: the result is put at the front of the list
AnalyzePrepend ==
  /\ pc = "loop"
  /\ i < Len(data)
  /\ LET m == data[i + 1]
         exc == analyze_raises(m)
     IN  IF exc # ""
           THEN /\ pc' = "raised"
                /\ raised' = exc
                /\ UNCHANGED <<i, results>>
           ELSE /\ results' = <<analyze_marketplace(m, 651 + i)>> \o results
                /\ i' = i + 1
                /\ UNCHANGED <<pc, raised>>
  /\ UNCHANGED <<data, saved, with_func, with_integration>>

\* lines 610-615: one pass of the loop; an exception ends main
Analyze ==
  /\ pc = "loop"
  /\ i < Len(data)
  /\ LET m == data[i + 1]
         exc == analyze_raises(m)
     IN  IF exc # ""
           THEN /\ pc' = "raised"
                /\ raised' = exc
                /\ UNCHANGED <<i, results>>
           ELSE /\ results' = Append(results, analyze_marketplace(m, 651 + i))
                /\ i' = i + 1
                /\ UNCHANGED <<pc, raised>>
  /\ UNCHANGED <<data, saved, with_func, with_integration>>

\* lines 617-622: the loop is over, the results are written
Save ==
  /\ pc = "loop"
  /\ i = Len(data)
  /\ saved' = results
  /\ pc' = "summary"
  /\ UNCHANGED <<data, i, results, raised, with_func, with_integration>>

\* lines 624-628
Summary ==
  /\ pc = "summary"
  /\ with_func' = Cardinality({k \in 1..Len(results) : Truthy(results[k].function)})
  /\ with_integration' = Cardinality({k \in 1..Len(results) : Truthy(results[k].integration)})
  /\ pc' = "done"
  /\ UNCHANGED <<data, i, results, raised, saved>>

Next == Analyze \/ Save \/ Summary

\* the state after line 609, for an input document drawn from docs
InitOn(docs) ==
  /\ data \in docs
  /\ i = 0
  /\ results = <<>>
  /\ pc = "loop"
  /\ raised = ""
  /\ saved = <<>>
  /\ with_func = 0
  /\ with_integration = 0

---------------------------------------------------------------------------
(* input documents *)

\* JSON fields
Val(x) == [kind |-> "val", val |-> x]
NoStr == [kind |-> "missing", val |-> ""]
NullStr == [kind |-> "null", val |-> ""]
NoList == [kind |-> "missing", val |-> <<>>]
NullList == [kind |-> "null", val |-> <<>>]

\* a skill or command record
Item(name, description) == [name |-> name, description |-> description]

Plugin(name, description, skills, commands) ==
  [name |-> name, description |-> description, skills |-> skills, commands |-> commands]

Record(repo, description, plugins) ==
  [repo |-> Val(repo), name |-> NoStr, description |-> description, plugins |-> plugins]

\* the documents that hold one record of a set
Singletons(records) == {<<m>> : m \in records}

\* bounds of the input sets
MaxWords == 2
MaxPlugins == 2
MaxBatch == 3
Slack == 2

\* the sequences of at most n elements of S
RECURSIVE SeqsUpTo(_, _)
SeqsUpTo(S, n) ==
  IF n = 0 THEN {<<>>}
  ELSE LET shorter == SeqsUpTo(S, n - 1)
       IN  shorter \cup {Append(q, x) : q \in {p \in shorter : Len(p) = n - 1}, x \in S}

\* the texts of at most MaxWords words of a vocabulary, single-space joined
TextsOver(vocabulary) == {Join(" ", p) : p \in SeqsUpTo(vocabulary, MaxWords)}

\* records that hold only a repo and a description
Described(repos, texts) == {Record(r, Val(t), NoList) : r \in repos, t \in texts}

\* frameworks, the languages they are built on, and a word that only
\* contains a keyword
IntegrationWords ==
  {"Django", "python", "Phoenix", "elixir", "Flutter", "dart", "go gin", "golang",
   "React Native", "next.js", "react", "trust"}

\* every text with a repo that matches nothing; the short texts also with
\* repos that hold a keyword
IntegrationRecords ==
  Described({"x/y"}, TextsOver(IntegrationWords))
    \cup Described({"acme/Polars-kit", "Foo/K8S"}, IntegrationWords \cup {""})

\* words around the tag patterns: exact alternatives, words that only contain
\* one, one word in several patterns, punctuation at the word boundary
TagWords ==
  {"deploy", "deployment", "Test", "unit tests", "test-driven", "ci/cd pipeline",
   "k8s", "(API)", "review.", "domain driven", "prd", "words"}

TagRecords == Described({"x/y"}, TextsOver(TagWords))

\* words for every branch of the description cascade
CascadeWords ==
  {"Dashboard", "data", "api endpoint", "incident", "Kubernetes", "vercel", "AWS",
   "autonomous", "security audit", "git commit", "plain words here", "readme"}

CascadeRecords == Described({"x/y"}, TextsOver(CascadeWords))

\* the record of the end-to-end scenario
KubernetesRecord ==
  Record("x/y", Val("A tool for Kubernetes deployment automation."), NoList)

\* records without a description and without plugins
AbsenceRecords ==
  {Record(r, d, p) : r \in {"x/y", "acme/docker-tools", "Foo/K8S-kit"},
                     d \in {NoStr, NullStr, Val("")},
                     p \in {NoList, Val(<<>>)}}

\* plugins without a description: every kind of name, with and without a
\* skill that has a description
NoTextPlugins ==
  {Plugin(n, NoStr, s, NoList) :
     n \in {Val("Commit-Helper"), Val("code-review"), Val("tester"), Val("misc"),
            NoStr, NullStr},
     s \in {NoList, Val(<<Item(Val("k8s-skill"), Val("Kubernetes dashboard for data"))>>)}}
  \cup {Plugin(Val("tester"), NullStr, NoList, NoList),
        Plugin(Val("git-review"), Val(""), Val(<<>>), Val(<<>>))}

NoTextRecords ==
  {Record("x/y", NoStr, Val(ps)) : ps \in SeqsUpTo(NoTextPlugins, MaxPlugins) \ {<<>>}}

\* records in which a list is null
NullListRecords ==
  {Record("x/y", Val("Docs"), NullList),
   Record("x/y", Val("Docs"), Val(<<Plugin(Val("p"), Val("Plugin text"), NullList, NoList)>>)),
   Record("x/y", NoStr, Val(<<Plugin(Val("p"), NoStr, NoList, NullList)>>))}

\* records with every field present
FullRecords ==
  {Record("x/y", Val("Main"),
          Val(<<Plugin(Val("P1"), Val("First"),
                       Val(<<Item(Val("S1"), Val("skill one"))>>),
                       Val(<<Item(Val("C1"), Val("command one"))>>)),
                Plugin(Val("P2"), Val("Second"),
                       Val(<<Item(Val("S2"), NoStr), Item(NullStr, Val("skill two"))>>),
                       NoList)>>)),
   Record("x/y", NullStr,
          Val(<<Plugin(NoStr, NullStr, Val(<<Item(Val("S1"), Val("Rust helper"))>>), NoList),
                Plugin(Val("P2"), Val("Plugin for Django. More text."), NoList, NoList)>>))}

ScenarioRecords ==
  {KubernetesRecord} \cup AbsenceRecords \cup NoTextRecords \cup NullListRecords
    \cup FullRecords

\* program constants of the truncation, lines 580-581
TruncationLimit == 150
KeptLength == 147

\* the source length of the truncation scenario
ScenarioLength == 200

\* text that matches no keyword and holds no sentence terminator
FillerBase == "Quick brown foxes jump over lazy dogs "

RECURSIVE Repeat(_, _)
Repeat(s, n) == IF n = 0 THEN "" ELSE s \o Repeat(s, n - 1)

\* the first n characters of the repeated filler
Filler(n) == SubSeq(Repeat(FillerBase, (n \div Len(FillerBase)) + 1), 1, n)

SourceLengths ==
  ((TruncationLimit - Slack)..(TruncationLimit + Slack)) \cup {ScenarioLength}

\* sources of the lengths around the limit: without a terminator, ending in
\* each terminator, and padded with spaces to the scenario's length
ExtractSources ==
  {Filler(n) : n \in SourceLengths}
    \cup {Filler(n - 1) \o t : n \in SourceLengths, t \in Terminators}
    \cup {Filler(n) \o Repeat(" ", ScenarioLength - n) :
            n \in {TruncationLimit - 10, TruncationLimit + 10}}

ExtractRecords == Described({"x/y"}, ExtractSources)

\* openings of a source: none, a short sentence that ends in each kind of
\* terminator, a sentence of ten characters or more, a terminator at the very
\* start, spaces, and a period inside the first word
SentenceHeads ==
  {"", "Hi! ", "Why? ", "Hi. ", "Hm" \o CJK_STOP \o " ", "Long enough start. ",
   "Long enough start! ", "Long enough start" \o CJK_BANG \o " ", ".", CJK_STOP, "  ",
   "No.1 "}

\* the rest of a source: long and short, without a terminator, with a CJK
\* one, with a Latin one, with several
SentenceTails ==
  {"plain words carry on here", "plain", "plain words" \o CJK_STOP \o " carry on here",
   "plain words carry on. more",
   "words" \o CJK_QUERY \o " then more words" \o CJK_BANG \o " end"}

SentenceSources == {h \o t : h \in SentenceHeads, t \in SentenceTails} \cup {"   "}

SentenceRecords == Described({"x/y"}, SentenceSources)

\* words around the rules after the table: each rule's keyword, the words
\* that block a rule, "go" as a token and inside a word
FallbackWords ==
  {"React", "reactive", "native", "Python", "python flask", "TypeScript", "ASP.NET",
   "dotnet", "go", "cargo", "Swift", "swiftui"}

\* every text with a repo that holds no keyword; the short texts also with a
\* repo that holds keywords of the rules only, and with one that holds a
\* keyword of the table
FallbackRecords ==
  Described({"x/y"}, TextsOver(FallbackWords))
    \cup Described({"acme/typescript-swift", "Foo/Django"}, FallbackWords \cup {""})

\* plugins for the name text: with a skill, with a skill and a command, with
\* two skills of which one has no name, without a name, with neither
NamePlugins ==
  {Plugin(Val("P1"), NoStr, Val(<<Item(Val("S1"), NoStr)>>), NoList),
   Plugin(Val("P2"), NoStr, Val(<<Item(Val("S2"), NoStr)>>), NoList),
   Plugin(Val("P3"), Val("Third"), Val(<<Item(Val("S3"), Val("skill three"))>>),
          Val(<<Item(Val("C3"), NoStr)>>)),
   Plugin(Val("P4"), NoStr, Val(<<Item(NullStr, NoStr), Item(Val("S4"), NoStr)>>),
          Val(<<Item(Val(""), NoStr), Item(Val("C4"), NoStr)>>)),
   Plugin(NullStr, NoStr, Val(<<Item(Val("S5"), NoStr)>>), Val(<<>>)),
   Plugin(Val("P6"), NoStr, NoList, NoList)}

NameRecords ==
  {Record("x/y", Val("Main"), Val(ps)) : ps \in SeqsUpTo(NamePlugins, MaxPlugins)}
    \cup {Record("x/y", Val("Main"), NoList)}

\* records for every way a pair is made: without text, with names only, with
\* every field, one word of each branch of the cascade, extracted sentences
PairRecords ==
  AbsenceRecords \cup NoTextRecords \cup FullRecords
    \cup Described({"x/y"}, CascadeWords) \cup SentenceRecords

\* records of the batches: results that differ, and one record that raises
BatchRecords ==
  {KubernetesRecord,
   Record("a/b", NoStr, NoList),
   Record("c/d", NoStr, Val(<<Plugin(Val("commit-helper"), NoStr, NoList, NoList)>>)),
   Record("e/f", NullStr, Val(<<Plugin(NullStr, NoStr, NoList, NoList)>>)),
   Record("g/h", Val("Docker dashboard"), NoList)}

---------------------------------------------------------------------------
(* specifications *)

\* the batch driver on documents of at most MaxBatch records
Init == InitOn(SeqsUpTo(BatchRecords, MaxBatch))
Spec == Init /\ [][Next]_vars

\* one record per document, drawn from the set its name tells
InitIntegration == InitOn(Singletons(IntegrationRecords))
SpecIntegration == InitIntegration /\ [][Next]_vars

InitTags == InitOn(Singletons(TagRecords))
SpecTags == InitTags /\ [][Next]_vars

InitCascade == InitOn(Singletons(CascadeRecords))
SpecCascade == InitCascade /\ [][Next]_vars

InitScenario == InitOn(Singletons(ScenarioRecords))
SpecScenario == InitScenario /\ [][Next]_vars

InitExtract == InitOn(Singletons(ExtractRecords))
SpecExtract == InitExtract /\ [][Next]_vars

InitSentence == InitOn(Singletons(SentenceRecords))
SpecSentence == InitSentence /\ [][Next]_vars

InitFallback == InitOn(Singletons(FallbackRecords))
SpecFallback == InitFallback /\ [][Next]_vars

InitNames == InitOn(Singletons(NameRecords))
SpecNames == InitNames /\ [][Next]_vars

InitPairs == InitOn(Singletons(PairRecords))
SpecPairs == InitPairs /\ [][Next]_vars
---------------------------------------------------------------------------
(* properties *)

\* the table entries whose keyword is in the record's combined text or in its
\* lower-cased repo
TableHits(m) ==
  {j \in 1..Len(integrations) :
     \/ Contains(combined_text(m), integrations[j][1])
     \/ Contains(Lower(Get(m.repo, "").val), integrations[j][1])}

\* C1: the integration of every result is the label of the first table pair
\* whose keyword occurs in the combined text or in the lower-cased repo; no
\* later pair's label is returned when an earlier pair matches, and the rules
\* after the table decide only when no pair matches.
FirstTablePairWins ==
  \A k \in 1..Len(results) :
    LET hits == TableHits(data[k])
    IN  /\ hits # {} =>
             \E j \in hits :
                /\ \A o \in hits : j <= o
                /\ results[k].integration = Str(integrations[j][2])
        /\ hits = {} =>
             results[k].integration = integration_fallback(combined_text(data[k]))

\* a record whose text holds the keywords of two table pairs, "django" after
\* "flutter" in the table: the earlier pair's label
FirstTablePairWinsWitness ==
  /\ pc = "done"
  /\ data[1].description.val = "Django Flutter"
  /\ results[1].integration = Str("Flutter")

\* the conflicts of a framework keyword with the keyword and the label of the
\* language it is built on
FrameworkConflicts ==
  {<<"django", "python", "Python">>, <<"fastapi", "python", "Python">>,
   <<"flutter", "dart", "Dart">>, <<"axum", "rust", "Rust">>,
   <<"go gin", "golang", "Go">>, <<"go echo", "golang", "Go">>,
   <<"phoenix", "elixir", "Elixir">>,
   <<"react native", "react", "React">>, <<"next.js", "react", "React">>}

\* C2: a record whose combined text holds a framework's keyword and the
\* keyword of the language it is built on gets a label, and never the
\* language's label.
FrameworkBeatsLanguage ==
  \A k \in 1..Len(results) :
    \A c \in FrameworkConflicts :
      (Contains(combined_text(data[k]), c[1]) /\ Contains(combined_text(data[k]), c[2]))
        => /\ Truthy(results[k].integration)
           /\ results[k].integration # Str(c[3])

\* the tag patterns that match the record's combined text
MatchingPatterns(m) ==
  {p \in 1..Len(tag_patterns) : re_search(tag_patterns[p][1], combined_text(m))}

\* C3: stage_lifecycle_arch of every result holds exactly the tags of all the
\* patterns that match the combined text, in strictly ascending order (so
\* without duplicates), is never empty, and is ["general"] exactly when no
\* pattern matches.
TagsAreAllMatches ==
  \A k \in 1..Len(results) :
    LET matching == MatchingPatterns(data[k])
        tags == results[k].stage_lifecycle_arch
    IN  /\ Len(tags) > 0
        /\ {tags[j] : j \in 1..Len(tags)} =
             IF matching = {} THEN {"general"} ELSE {tag_patterns[p][2] : p \in matching}
        /\ \A j \in 1..(Len(tags) - 1) : StrLess(tags[j], tags[j + 1])
        /\ (tags = <<"general">>) <=> (matching = {})

\* a text that matches four patterns, three of them by the one word
\* "pipeline": all four tags, sorted
TagsAreAllMatchesWitness ==
  /\ pc = "done"
  /\ data[1].description.val = "k8s ci/cd pipeline"
  /\ results[1].stage_lifecycle_arch =
       <<"data-processing", "deployment", "devops", "orchestration">>

\* the record's source text: its description, else the first plugin description
SourceOf(m) ==
  IF Truthy(Get(m.description, "")) THEN m.description.val
  ELSE first_plugin_desc(Get(m.plugins, <<>>).val).val

\* the labels with a pair of their own in the dispatch of lines 435-527
DispatchLabels ==
  UNION {integration_pairs[k][1] : k \in 1..Len(integration_pairs)}

CloudLabels == {"AWS", "Azure", "GCP"}

\* C4: for a record with text the cascade is first-successful-branch-wins:
\* the first content rule that matches gives its canned pair even if a label
\* is present; else a present label gives its own pair, or the templated pair
\* if it has none; else the first further heuristic that matches gives its
\* pair; else the pair is extracted from the source.
CascadeOrder ==
  \A k \in 1..Len(results) :
    LET m == data[k]
        c == combined_text(m)
        label == results[k].integration
        func == results[k].function
        value == results[k].value
    IN  ~no_text(m) =>
          /\ content_rule(c) > 0 =>
               /\ func = Str(content_pairs[content_rule(c)][1])
               /\ value = Str(content_pairs[content_rule(c)][2])
          /\ (content_rule(c) = 0 /\ Truthy(label)) =>
               /\ label.val \in DispatchLabels =>
                    \E j \in 1..Len(integration_pairs) :
                       /\ label.val \in integration_pairs[j][1]
                       /\ func = Str(integration_pairs[j][2])
                       /\ value = Str(integration_pairs[j][3])
               /\ label.val \in CloudLabels =>
                    /\ func = Str("Deploy and manage cloud infrastructure on "
                                    \o label.val \o ".")
                    /\ value = Str("Automate cloud operations with infrastructure as code.")
               /\ label.val \notin (DispatchLabels \cup CloudLabels) =>
                    /\ func = Str("Develop " \o label.val
                                    \o " applications with best practices and patterns.")
                    /\ value = Str("Build quality " \o label.val \o " projects faster.")
          /\ (content_rule(c) = 0 /\ ~Truthy(label) /\ heuristic_rule(c) > 0) =>
               /\ func = Str(heuristic_pairs[heuristic_rule(c)][1])
               /\ value = Str(heuristic_pairs[heuristic_rule(c)][2])
          /\ (content_rule(c) = 0 /\ ~Truthy(label) /\ heuristic_rule(c) = 0) =>
               <<func, value>> = fallback_extraction(SourceOf(m), c)

\* a text that matches the dashboard rule and holds a table keyword: the
\* label is Kubernetes and the pair is the dashboard rule's
CascadeOrderWitness ==
  /\ pc = "done"
  /\ data[1].description.val = "Dashboard Kubernetes"
  /\ results[1].integration = Str("Kubernetes")
  /\ results[1].function = Str("Build interactive data visualizations and dashboards.")
  /\ results[1].value = Str("Create publication-quality visualizations with less code.")

\* C5, as stated: the end-to-end record yields the label Kubernetes, a tag
\* list with "devops", its own description as function and the canned
\* Kubernetes value.
KubernetesScenarioAsStated ==
  \A k \in 1..Len(results) :
    data[k] = KubernetesRecord =>
      /\ results[k].integration = Str("Kubernetes")
      /\ \E j \in 1..Len(results[k].stage_lifecycle_arch) :
            results[k].stage_lifecycle_arch[j] = "devops"
      /\ results[k].function = Str("A tool for Kubernetes deployment automation.")
      /\ results[k].value = Str("Simplify container orchestration and deployment.")

\* C5, amended: the end-to-end record yields the label Kubernetes, the tag
\* list ["general"] (no pattern matches: "deployment" is not the word
\* "deploy"), and the canned Kubernetes pair, function included.
KubernetesScenario ==
  \A k \in 1..Len(results) :
    data[k] = KubernetesRecord =>
      /\ results[k].integration = Str("Kubernetes")
      /\ results[k].stage_lifecycle_arch = <<"general">>
      /\ results[k].function =
           Str("Deploy and manage Kubernetes applications and configurations.")
      /\ results[k].value = Str("Simplify container orchestration and deployment.")

KubernetesScenarioWitness ==
  /\ pc = "done"
  /\ data = <<KubernetesRecord>>
  /\ Len(saved) = 1
  /\ saved[1].integration = Str("Kubernetes")

\* no description anywhere and no plugins: the plugins list is missing or empty
Absent(m) ==
  /\ ~Truthy(Get(m.description, ""))
  /\ Get(m.plugins, <<>>).kind = "val"
  /\ Len(Get(m.plugins, <<>>).val) = 0

\* C6, as stated: a record without description and plugins yields no
\* function, no value, no integration and the tags ["general"], whatever its
\* repo is.
AbsenceIgnoresRepo ==
  \A k \in 1..Len(results) :
    Absent(data[k]) =>
      /\ results[k].function = None
      /\ results[k].value = None
      /\ results[k].integration = None
      /\ results[k].stage_lifecycle_arch = <<"general">>

\* the table entries whose keyword is in the record's lower-cased repo
RepoHits(m) ==
  {j \in 1..Len(integrations) : Contains(Lower(Get(m.repo, "").val), integrations[j][1])}

\* C6, amended: such a record always gets a result, with no function, no
\* value and the tags ["general"]; its integration is the label of the first
\* table pair whose keyword is in the lower-cased repo, and None only when the
\* repo holds no table keyword.
AbsenceLeavesRepoLabel ==
  /\ pc = "raised" => ~Absent(data[i + 1])
  /\ \A k \in 1..Len(results) :
       Absent(data[k]) =>
         /\ results[k].function = None
         /\ results[k].value = None
         /\ results[k].stage_lifecycle_arch = <<"general">>
         /\ RepoHits(data[k]) = {} => results[k].integration = None
         /\ RepoHits(data[k]) # {} =>
              \E j \in RepoHits(data[k]) :
                 /\ \A o \in RepoHits(data[k]) : j <= o
                 /\ results[k].integration = Str(integrations[j][2])

AbsenceLeavesRepoLabelWitness ==
  /\ pc = "done"
  /\ Absent(data[1])
  /\ data[1].repo.val = "acme/docker-tools"
  /\ results[1].integration = Str("Docker")
  /\ results[1].function = None
  /\ results[1].value = None

\* the lower-cased, space-joined plugin names of a record, an absent name
\* contributing the empty string
JoinedPluginNames(m) ==
  LET plugins == Get(m.plugins, <<>>).val
  IN  Lower(Join(" ", [k \in 1..Len(plugins) |->
                         IF plugins[k].name.kind = "val" THEN plugins[k].name.val ELSE ""]))

\* the pair the three name heuristics give for joined names
PairFromNames(names) ==
  IF Contains(names, "git") \/ Contains(names, "commit")
    THEN <<Str("Automate git workflows including commits, branches, and pull requests."),
           Str("Streamline version control with consistent, well-formatted commits.")>>
  ELSE IF Contains(names, "review")
    THEN <<Str("Review code changes and provide feedback."),
           Str("Catch issues early with automated code review.")>>
  ELSE IF Contains(names, "test")
    THEN <<Str("Generate and run tests for code."),
           Str("Ensure code quality with comprehensive test coverage.")>>
  ELSE <<None, None>>

\* the pairs of the results of records without text are decided by the joined
\* plugin names alone, whatever the label and the combined text are
NoTextPairsFromNames ==
  \A k \in 1..Len(results) :
    no_text(data[k]) =>
      <<results[k].function, results[k].value>> = PairFromNames(JoinedPluginNames(data[k]))

\* C7: when the record's description and every plugin's description are
\* absent, generate_descriptions returns a pair decided only by the joined
\* plugin names, git or commit before review before test, and (None, None)
\* otherwise or without plugins: it is reached (the aggregation has not
\* raised) and returns, and the pair is the names' pair.
NoTextDecidedByNames ==
  /\ pc = "raised" => ~(no_text(data[i + 1]) /\ ~aggregation_raises(data[i + 1]))
  /\ NoTextPairsFromNames

\* the cascade reaches the fallback extraction for record m with result r
FallbackReached(m, r) ==
  ~no_text(m) /\ cascade_branch(combined_text(m), r.integration) = "fallback"

HasTerminator(s) == \E k \in 1..Len(s) : CharAt(s, k) \in Terminators

\* C8, as stated: a source of the scenario's 200 characters without a sentence
\* terminator that reaches the fallback extraction gives a function of
\* exactly 148 characters.
TruncatedLengthAsStated ==
  \A k \in 1..Len(results) :
    (/\ FallbackReached(data[k], results[k])
     /\ Len(SourceOf(data[k])) = ScenarioLength
     /\ ~HasTerminator(SourceOf(data[k])))
      => Len(results[k].function.val) = 148

\* C8, amended: an extracted function longer than 150 characters is cut to
\* its first 147 characters followed by the three characters "...", so to
\* exactly 150 characters, and no period follows the ellipsis; in particular
\* a source of the scenario's length without a terminator, still longer than
\* 150 characters once stripped, gives its first 147 characters and "...".
TruncationKeepsLimit ==
  \A k \in 1..Len(results) :
    LET source == SourceOf(data[k])
        func == results[k].function.val
    IN  FallbackReached(data[k], results[k]) =>
          /\ Len(extract_sentence(source)) > 150 =>
               /\ func = SubSeq(extract_sentence(source), 1, 147) \o "..."
               /\ Len(func) = 150
          /\ (/\ Len(source) = ScenarioLength
              /\ ~HasTerminator(source)
              /\ Len(Strip(source)) > 150) =>
               /\ func = SubSeq(Strip(source), 1, 147) \o "..."
               /\ Len(func) = 150

\* the source of the scenario's length without terminator or padding: 150
\* characters that end in the ellipsis
TruncationKeepsLimitWitness ==
  /\ pc = "done"
  /\ data[1].description.val = Filler(ScenarioLength)
  /\ FallbackReached(data[1], results[1])
  /\ Len(results[1].function.val) = 150
  /\ SubSeq(results[1].function.val, 145, 150) = "zy ..."

\* C9: analyze_marketplace raises no exception on a record of the data
\* model, whichever optional fields are missing or null.
NoExceptionOnConformingRecords == pc # "raised" /\ raised = ""

\* C10: at every step the results list is the classification of exactly the
\* records processed so far, result k being that of record k alone, with its
\* repo; once the loop is over there are as many results as records, and
\* they are what is written.
BatchOrder ==
  /\ Len(results) = i
  /\ i <= Len(data)
  /\ \A k \in 1..Len(results) :
       /\ results[k] = analyze_marketplace(data[k], 0)
       /\ results[k].repo = Get(data[k].repo, "")
  /\ pc \in {"summary", "done"} => (Len(results) = Len(data) /\ saved = results)
  /\ pc = "raised" => (i < Len(data) /\ analyze_raises(data[i + 1]) # "")

\* a batch of three different records, processed to the end
BatchOrderWitness ==
  /\ pc = "done"
  /\ Len(data) = 3
  /\ data[1].repo.val = "g/h"
  /\ data[2].repo.val = "x/y"
  /\ data[3].repo.val = "c/d"
  /\ Len(saved) = 3
  /\ saved[1].integration = Str("Docker")
  /\ saved[2].integration = Str("Kubernetes")
  /\ saved[3].integration = None


\* the canned pairs of the content rules, the dispatch and the further
\* heuristics
CannedPairs ==
  {<<content_pairs[j][1], content_pairs[j][2]>> : j \in 1..Len(content_pairs)}
    \cup {<<integration_pairs[j][2], integration_pairs[j][3]>> :
            j \in 1..Len(integration_pairs)}
    \cup {<<heuristic_pairs[j][1], heuristic_pairs[j][2]>> : j \in 1..Len(heuristic_pairs)}

\* the two pairs the dispatch builds around a label
TemplatedPairs(label) ==
  {<<"Deploy and manage cloud infrastructure on " \o label \o ".",
     "Automate cloud operations with infrastructure as code.">>,
   <<"Develop " \o label \o " applications with best practices and patterns.",
     "Build quality " \o label \o " projects faster.">>}

\* C11: for a record with text, whenever a content rule, the integration
\* dispatch (a label is present) or a further heuristic matches, the pair is
\* a canned or templated one, so an extracted pair is returned only when none
\* of them matched; in particular every record with text and a label gets a
\* canned pair or a pair templated on its label.
ExtractionIsLastResort ==
  \A k \in 1..Len(results) :
    LET m == data[k]
        c == combined_text(m)
        label == results[k].integration
        func == results[k].function
        value == results[k].value
        templated == IF Truthy(label) THEN TemplatedPairs(label.val) ELSE {}
    IN  ~no_text(m) =>
          /\ (content_rule(c) > 0 \/ Truthy(label) \/ heuristic_rule(c) > 0) =>
               /\ func.kind = "val" /\ value.kind = "val"
               /\ <<func.val, value.val>> \in CannedPairs \cup templated
          /\ <<func, value>> = fallback_extraction(SourceOf(m), c) =>
               \/ content_rule(c) = 0 /\ ~Truthy(label) /\ heuristic_rule(c) = 0
               \/ <<func.val, value.val>> \in CannedPairs \cup templated

\* a description with a label whose first sentence would be extracted as
\* "Kubernetes plain words here.": the function is the label's canned one
ExtractionIsLastResortWitness ==
  /\ pc = "done"
  /\ data[1].description.val = "Kubernetes plain words here"
  /\ content_rule(combined_text(data[1])) = 0
  /\ results[1].integration = Str("Kubernetes")
  /\ punctuate(truncate(extract_sentence(SourceOf(data[1])))) = "Kubernetes plain words here."
  /\ results[1].function = Str("Deploy and manage Kubernetes applications and configurations.")

\* the positions of a source that hold a character of a set
PositionsOf(source, chars) == {k \in 1..Len(source) : CharAt(source, k) \in chars}

\* the trimmed text before the first character of a set of splitters, the
\* trimmed source if it holds none
TextBefore(source, splitters) ==
  LET at == PositionsOf(source, splitters)
  IN  Strip(IF at = {} THEN source ELSE SubSeq(source, 1, Least(at) - 1))

\* the function that fallback extraction makes of an extracted sentence
Finished(sentence) ==
  LET cut == IF Len(sentence) > TruncationLimit
               THEN SubSeq(sentence, 1, KeptLength) \o "..." ELSE sentence
  IN  IF cut # "" /\ CharAt(cut, Len(cut)) \notin Terminators THEN cut \o "." ELSE cut

\* C12, as stated: the first sentence that decides between the two ways of
\* extraction is the text before the first of '.', '!' and '?'.
SentenceSplitAsStated ==
  \A k \in 1..Len(results) :
    LET source == SourceOf(data[k])
        short == Len(TextBefore(source, LatinTerminators)) < 10 /\ Len(source) > 20
        cjk == PositionsOf(source, CJKTerminators) \ {1}
        stops == PositionsOf(source, Terminators)
        sentence ==
          IF short
            THEN IF cjk # {} THEN Strip(SubSeq(source, 1, Least(cjk))) ELSE Strip(source)
            ELSE IF stops # {} /\ Least(stops) > 1
                   THEN Strip(SubSeq(source, 1, Least(stops))) ELSE Strip(source)
    IN  FallbackReached(data[k], results[k]) =>
          results[k].function = Str(Finished(sentence))

\* C12, amended: the first sentence is the trimmed text before the first
\* period only. If it is shorter than 10 characters while the source is
\* longer than 20, the sentence is the shortest prefix of two or more
\* characters that ends in a CJK terminator, else the whole source; otherwise
\* it is the prefix up to and including the first terminator of any kind, the
\* whole source if there is none or the source starts with one. The sentence
\* is trimmed, cut to the limit and given a final period.
SentenceSplitAtPeriod ==
  \A k \in 1..Len(results) :
    LET source == SourceOf(data[k])
        short == Len(TextBefore(source, {"."})) < 10 /\ Len(source) > 20
        cjk == PositionsOf(source, CJKTerminators) \ {1}
        stops == PositionsOf(source, Terminators)
        sentence ==
          IF short
            THEN IF cjk # {} THEN Strip(SubSeq(source, 1, Least(cjk))) ELSE Strip(source)
            ELSE IF stops # {} /\ Least(stops) > 1
                   THEN Strip(SubSeq(source, 1, Least(stops))) ELSE Strip(source)
    IN  FallbackReached(data[k], results[k]) =>
          results[k].function = Str(Finished(sentence))

\* a source of more than 20 characters that opens with "Hi! " and holds no
\* period and no CJK terminator: the function is "Hi!", not the source
SentenceSplitAtPeriodWitness ==
  /\ pc = "done"
  /\ data[1].description.val = "Hi! plain words carry on here"
  /\ FallbackReached(data[1], results[1])
  /\ results[1].function = Str("Hi!")

\* the rules after the table in their order: whether each applies to a
\* combined text, and its label
FallbackRules(c) ==
  << <<Contains(c, "react") /\ ~Contains(c, "native") /\ ~Contains(c, "reactive"), "React">>,
     <<Contains(c, "python") /\ ~Contains(c, "django") /\ ~Contains(c, "fastapi")
         /\ ~Contains(c, "flask"), "Python">>,
     <<Contains(c, "typescript"), "TypeScript">>,
     <<Contains(c, ".net") \/ Contains(c, "dotnet"), ".NET">>,
     <<Contains(c, " go ") \/ StartsWith(c, "go ") \/ Contains(c, "golang"), "Go">>,
     <<Contains(c, "swift") /\ ~Contains(c, "swiftui"), "Swift">> >>

\* C13: when a table pair matches the combined text or the repo the label is
\* the table's; when none does, the label is that of the first rule after the
\* table that applies to the combined text, whatever the repo holds, and there
\* is no label if no rule applies.
FallbackRulesInOrder ==
  \A k \in 1..Len(results) :
    LET c == combined_text(data[k])
        hits == TableHits(data[k])
        rules == FallbackRules(c)
        applying == {j \in 1..Len(rules) : rules[j][1]}
    IN  /\ hits # {} => results[k].integration = Str(integrations[Least(hits)][2])
        /\ hits = {} =>
             results[k].integration =
               IF applying = {} THEN None ELSE Str(rules[Least(applying)][2])

\* a text with "python", "flask" and "typescript": the Python rule is
\* blocked and the label is TypeScript
FallbackRulesInOrderWitness ==
  /\ pc = "done"
  /\ data[1].description.val = "python flask TypeScript"
  /\ TableHits(data[1]) = {}
  /\ results[1].integration = Str("TypeScript")

\* the names of a list of plugin, skill or command records that are present:
\* neither missing, nor null, nor empty
PresentNames(items) ==
  LET named == SelectSeq(items, LAMBDA x : x.name.kind = "val" /\ x.name.val # "")
  IN  [j \in 1..Len(named) |-> named[j].name.val]

\* the skill or command records a plugin holds under a key
ItemsOf(field) == IF field.kind = "val" THEN field.val ELSE <<>>

RECURSIVE Flatten(_)
Flatten(lists) == IF Len(lists) = 0 THEN <<>> ELSE lists[1] \o Flatten(Tail(lists))

\* C14, as stated: the name text holds the names in the traversal order of
\* the combined text: each plugin's name, then its skills' names, then its
\* commands' names, before the next plugin's.
NameTextInTraversalOrder ==
  \A k \in 1..Len(results) :
    LET plugins == ItemsOf(data[k].plugins)
        names == Flatten([j \in 1..Len(plugins) |->
                            PresentNames(<<plugins[j]>>)
                              \o PresentNames(ItemsOf(plugins[j].skills))
                              \o PresentNames(ItemsOf(plugins[j].commands))])
    IN  all_names(data[k]) = Lower(Join(" ", names))

\* C14, amended: the name text is the lower-cased single-space join of the
\* present names grouped by kind: the names of all plugins in list order,
\* then the skill names of all plugins (plugin by plugin, each plugin's
\* skills in order), then the command names of all plugins likewise.
NameTextGroupedByKind ==
  \A k \in 1..Len(results) :
    LET plugins == ItemsOf(data[k].plugins)
        names == PresentNames(plugins)
                   \o Flatten([j \in 1..Len(plugins) |->
                                 PresentNames(ItemsOf(plugins[j].skills))])
                   \o Flatten([j \in 1..Len(plugins) |->
                                 PresentNames(ItemsOf(plugins[j].commands))])
    IN  all_names(data[k]) = Lower(Join(" ", names))

\* plugins P1 with skill S1 and P2 with skill S2: "p1 p2 s1 s2"
NameTextGroupedByKindWitness ==
  /\ pc = "done"
  /\ Len(results) = 1
  /\ LET plugins == ItemsOf(data[1].plugins)
     IN  /\ Len(plugins) = 2
         /\ plugins[1].name = Val("P1") /\ plugins[1].skills.val[1].name = Val("S1")
         /\ plugins[2].name = Val("P2") /\ plugins[2].skills.val[1].name = Val("S2")
  /\ all_names(data[1]) = "p1 p2 s1 s2"

\* the record's description or the description of one of its plugins is
\* present and not empty
HasDescription(m) ==
  \/ m.description.kind = "val" /\ m.description.val # ""
  \/ \E p \in {ItemsOf(m.plugins)[j] : j \in 1..Len(ItemsOf(m.plugins))} :
        p.description.kind = "val" /\ p.description.val # ""

\* C15: in every result function is None exactly when value is None, and a
\* record with a description of its own or of a plugin gets a function and a
\* value that are both not None: the pair (None, None) is returned only for
\* records without any such description.
PairIsWhole ==
  \A k \in 1..Len(results) :
    /\ (results[k].function = None) <=> (results[k].value = None)
    /\ HasDescription(data[k]) =>
         /\ results[k].function.kind = "val"
         /\ results[k].value.kind = "val"
    /\ results[k].function = None => no_text(data[k])

\* a description of three spaces: the function is the empty string, which is
\* not None, and the value is the default sentence
PairIsWholeWitness ==
  /\ pc = "done"
  /\ data[1].description = Val("   ")
  /\ HasDescription(data[1])
  /\ results[1].function = Str("")
  /\ results[1].value = Str("Streamline development workflows and reduce manual effort.")
=============================================================================
